---------------------------- MODULE Spec2Model ----------------------------
(***************************************************************************)
(* Model of Smart_Parking_Management_System.py: the slot registry          *)
(* (parking_lot), the allocation policy (find_available_slot), the billing *)
(* function (calculate_fee), the ledger (revenue_log) and the two handlers *)
(* vehicle_entry and vehicle_exit.                                         *)
(*                                                                         *)
(* Python strings are modelled as sequences of one-character strings, so   *)
(* that str.upper(), str.startswith() and the slot-id formatting are       *)
(* computed rather than assumed.  A datetime is a record [sec, us]: whole  *)
(* seconds since the start of the session and microseconds in 0..999999;   *)
(* a timedelta is the same record with sec possibly negative, which is     *)
(* Python's normalised (days, seconds, microseconds) with days folded into *)
(* sec.                                                                    *)
(***************************************************************************)
EXTENDS Integers, Sequences, FiniteSets, TLC

VARIABLES
    max_slots,     \* MAX_SLOTS: capacity per category, fixed at start-up
    order,         \* iteration order of the parking_lot dict (after the shuffle)
    parking_lot,   \* parking_lot: slot id -> None or reservation
    revenue_log,   \* revenue_log: list of ledger entries
    now,           \* the latest value datetime.datetime.now() has returned
    alive,         \* FALSE once an exception has left main_menu (process ended)
    calls,         \* number of handler calls made in this session
    last,          \* what the latest handler call printed: outcome, vehicle, slot
    completed,     \* history: how many entries and how many exits have succeeded
    fee_call,      \* arguments of the latest direct calculate_fee call
    fee_ret        \* what that call returned

vars == <<max_slots, order, parking_lot, revenue_log, now, alive, calls, last, completed,
          fee_call, fee_ret>>

-----------------------------------------------------------------------------
(* Bounds of the model *)

\* the session clock is observed up to this many whole hours: a stay of that
\* length is billed beyond the fixed hours of every tier
MaxClockHours == 4
\* a session is followed for this many handler calls
MaxCalls == 3
\* direct calculate_fee calls cover durations around each hour up to this one
MaxFeeHours == 4

-----------------------------------------------------------------------------
(* Strings *)

LowerChars == <<"a","b","c","d","e","f","g","h","i","j","k","l","m",
                "n","o","p","q","r","s","t","u","v","w","x","y","z">>
UpperChars == <<"A","B","C","D","E","F","G","H","I","J","K","L","M",
                "N","O","P","Q","R","S","T","U","V","W","X","Y","Z">>
DigitChars == <<"0","1","2","3","4","5","6","7","8","9">>

\* the upper-case letter of every lower-case letter
UpperOf == [c \in { LowerChars[i] : i \in 1..Len(LowerChars) } |->
               UpperChars[CHOOSE i \in 1..Len(LowerChars) : LowerChars[i] = c]]

\* str.upper() on one character: letters a-z are mapped, anything else is kept
upper_char(c) == IF c \in DOMAIN UpperOf THEN UpperOf[c] ELSE c

\* upper() left out: the string is kept as typed
upper_omitted(s) == s

\* str.upper()
upper(s) == [i \in 1..Len(s) |-> upper_char(s[i])]

\* str.startswith(p)
startswith(s, p) == Len(s) >= Len(p) /\ SubSeq(s, 1, Len(p)) = p

\* the decimal digits of a natural number
RECURSIVE decimal(_)
decimal(n) == IF n < 10 THEN <<DigitChars[n + 1]>>
              ELSE decimal(n \div 10) \o <<DigitChars[(n % 10) + 1]>>

\* the format specification {index:02d}
format_02d(n) == IF n < 10 THEN <<"0">> \o decimal(n) ELSE decimal(n)

BIKE  == <<"B","I","K","E">>
CAR   == <<"C","A","R">>
EV    == <<"E","V">>
HEAVY == <<"H","E","A","V","Y">>
VIP   == <<"V","I","P">>

-----------------------------------------------------------------------------
(* Configuration *)

\* PRICING
PRICING ==
    (BIKE  :> [FIXED_HOURS |-> 2, FIXED_RATE |-> 5,  PER_HOUR |-> 2]) @@
    (CAR   :> [FIXED_HOURS |-> 2, FIXED_RATE |-> 10, PER_HOUR |-> 5]) @@
    (EV    :> [FIXED_HOURS |-> 2, FIXED_RATE |-> 12, PER_HOUR |-> 6]) @@
    (HEAVY :> [FIXED_HOURS |-> 1, FIXED_RATE |-> 15, PER_HOUR |-> 8]) @@
    (VIP   :> [FIXED_HOURS |-> 3, FIXED_RATE |-> 15, PER_HOUR |-> 4])

\* The keys of MAX_SLOTS, VIP first and then the standard categories in the
\* order initialize_parking_lot creates their slots.
Categories == <<VIP, BIKE, CAR, EV, HEAVY>>

\* MAX_SLOTS.  The program's capacities (BIKE 20, CAR 30, EV 10, HEAVY 5,
\* VIP 5: 70 slots) are scaled down to two-slot lots whose every iteration
\* order and occupancy can be enumerated; a session starts with one of them.
\* The first is the lot of the spillover scenario; together they hold a slot
\* of every category.
Capacities ==
    { (VIP :> 1) @@ (BIKE :> 0) @@ (CAR :> 1) @@ (EV :> 0) @@ (HEAVY :> 0),
      (VIP :> 2) @@ (BIKE :> 0) @@ (CAR :> 0) @@ (EV :> 0) @@ (HEAVY :> 0),
      (VIP :> 1) @@ (BIKE :> 1) @@ (CAR :> 0) @@ (EV :> 0) @@ (HEAVY :> 0),
      (VIP :> 0) @@ (BIKE :> 0) @@ (CAR :> 0) @@ (EV :> 1) @@ (HEAVY :> 1) }

\* MAX_SLOTS as the program ships it
MAX_SLOTS ==
    (BIKE :> 20) @@ (CAR :> 30) @@ (EV :> 10) @@ (HEAVY :> 5) @@ (VIP :> 5)

-----------------------------------------------------------------------------
(* Values *)

\* Python's None (an empty slot, or no slot id)
None == << >>

Min(S) == CHOOSE x \in S : \A y \in S : x <= y

Range(f) == { f[i] : i \in DOMAIN f }

\* datetime - datetime: a timedelta, normalised so that 0 <= us < 1000000
sub_datetime(a, b) ==
    IF a.us >= b.us
    THEN [sec |-> a.sec - b.sec, us |-> a.us - b.us]
    ELSE [sec |-> a.sec - b.sec - 1, us |-> a.us - b.us + 1000000]

\* datetime + timedelta
add_timedelta(a, d) ==
    IF a.us + d.us < 1000000
    THEN [sec |-> a.sec + d.sec, us |-> a.us + d.us]
    ELSE [sec |-> a.sec + d.sec + 1, us |-> a.us + d.us - 1000000]

-----------------------------------------------------------------------------
(* Slot registry *)

\* the slot id without its index: every slot of a category has the same id
generate_slot_id_without_index(vehicle_type, index) ==
    <<upper_char(vehicle_type[1]), "-">> \o format_02d(1)

\* generate_slot_id: the prefix is the category's first letter (the three
\* special cases name the same letter), then "-" and the two-digit index
generate_slot_id(vehicle_type, index) ==
    LET prefix == IF vehicle_type = EV THEN "E"
                  ELSE IF vehicle_type = HEAVY THEN "H"
                  ELSE IF vehicle_type = VIP THEN "V"
                  ELSE upper_char(vehicle_type[1])
    IN  <<prefix, "-">> \o format_02d(index)

\* the slot ids of one category, in creation order
RECURSIVE category_slots(_, _)
category_slots(v_type, n) ==
    IF n = 0 THEN << >>
    ELSE category_slots(v_type, n - 1) \o <<generate_slot_id(v_type, n)>>

\* the keys of parking_lot as initialize_parking_lot inserts them: the VIP
\* slots first, then BIKE, CAR, EV, HEAVY
RECURSIVE created_slots(_, _)
created_slots(cap, k) ==
    IF k = 0 THEN << >>
    ELSE created_slots(cap, k - 1) \o category_slots(Categories[k], cap[Categories[k]])

\* random.shuffle: every ordering of the keys
shuffles(keys) ==
    LET n == Len(keys)
        perms == { p \in [1..n -> 1..n] : \A i, j \in 1..n : p[i] = p[j] => i = j }
    IN  { [i \in 1..n |-> keys[p[i]]] : p \in perms }

\* total_capacity = sum(MAX_SLOTS.values())
RECURSIVE sum_capacity(_, _)
sum_capacity(cap, k) ==
    IF k = 0 THEN 0 ELSE sum_capacity(cap, k - 1) + cap[Categories[k]]

total_capacity == sum_capacity(max_slots, Len(Categories))

\* the first key, in dict iteration order, whose index is in idx; None if none
first_in_order(ord, idx) == IF idx = {} THEN None ELSE ord[Min(idx)]

-----------------------------------------------------------------------------
(* Billing *)

\* the VIP tier for every vehicle
pricing_scheme_vip_tier(vehicle_type) == PRICING[VIP]

\* PRICING.get(vehicle_type, PRICING['CAR'])
pricing_scheme(vehicle_type) ==
    IF vehicle_type \in DOMAIN PRICING THEN PRICING[vehicle_type] ELSE PRICING[CAR]

\* rounding with 3600 in place of 3599: a whole number of hours is rounded up too
billing_hours_plus_3600(duration) == (duration.sec + 3600) \div 3600

\* (total_seconds + 3599) // 3600 on the float total_seconds = sec + us/10^6:
\* since 0 <= us/10^6 < 1, the floor of (sec + 3599 + us/10^6) / 3600 is the
\* floor of (sec + 3599) / 3600, whatever us is.  (Exact in floating point for
\* durations below 2^32 seconds.)
billing_hours(duration) == (duration.sec + 3599) \div 3600

\* calculate_fee
calculate_fee(entry_time, exit_time, vehicle_type) ==
    LET duration    == sub_datetime(exit_time, entry_time)
        rounded     == billing_hours(duration)
        total_hours == IF rounded > 1 THEN rounded ELSE 1
        scheme      == pricing_scheme(vehicle_type)
        fixed_hours == scheme.FIXED_HOURS
        fixed_rate  == scheme.FIXED_RATE
        per_hour    == scheme.PER_HOUR
        fee         == IF total_hours <= fixed_hours
                       THEN fixed_rate
                       ELSE fixed_rate + ((total_hours - fixed_hours) * per_hour)
    IN  [fee |-> fee, total_hours |-> total_hours]

-----------------------------------------------------------------------------
(* Allocation *)

\* the scan without "status is None": occupied slots are candidates too
with_prefix_any_status(lot, ord, prefixes) ==
    { i \in 1..Len(ord) : \E p \in prefixes : startswith(ord[i], <<p, "-">>) }

\* the indexes, in iteration order, of the empty slots whose id starts with
\* one of the prefixes: "for slot_id, status in parking_lot.items(): if
\* slot_id.startswith(...) and status is None"
empty_with_prefix(lot, ord, prefixes) ==
    { i \in 1..Len(ord) : /\ \E p \in prefixes : startswith(ord[i], <<p, "-">>)
                          /\ lot[ord[i]] = None }

\* the prefix of the CAR slots for every type: any vehicle may take a CAR slot
type_prefix_always_car(vehicle_type) == "C"

\* type_prefix of find_available_slot
type_prefix(vehicle_type) ==
    IF vehicle_type = EV THEN "E"
    ELSE IF vehicle_type = HEAVY THEN "H"
    ELSE upper_char(vehicle_type[1])

\* what find_available_slot returns when it returns
returned(slot_id, allocated_type) ==
    [slot_id |-> slot_id, allocated_type |-> allocated_type, raised |-> FALSE]

\* find_available_slot ending in an exception instead of returning
raises == [slot_id |-> None, allocated_type |-> None, raised |-> TRUE]

\* the type-specific scan tried before the VIP scan
find_available_slot_type_first(lot, ord, vehicle_type, is_vip) ==
    LET vip_idx   == empty_with_prefix(lot, ord, {"V"})
        type_idx  == empty_with_prefix(lot, ord, {type_prefix(vehicle_type)})
        spill_idx == empty_with_prefix(lot, ord, {"C", "V"})
    IN  IF type_idx # {}
        THEN returned(first_in_order(ord, type_idx), vehicle_type)
        ELSE IF is_vip /\ vip_idx # {}
        THEN returned(first_in_order(ord, vip_idx), VIP)
        ELSE IF vehicle_type \in {CAR, EV} /\ spill_idx # {}
        THEN raises
        ELSE returned(None, None)

\* step 4 implemented as a general fallback to any empty slot
find_available_slot_general_fallback(lot, ord, vehicle_type, is_vip) ==
    LET vip_idx   == empty_with_prefix(lot, ord, {"V"})
        type_idx  == empty_with_prefix(lot, ord, {type_prefix(vehicle_type)})
        spill_idx == empty_with_prefix(lot, ord, {"C", "V"})
        any_idx   == empty_with_prefix(lot, ord, {"B", "C", "E", "H", "V"})
    IN  IF is_vip /\ vip_idx # {}
        THEN returned(first_in_order(ord, vip_idx), VIP)
        ELSE IF type_idx # {}
        THEN returned(first_in_order(ord, type_idx), vehicle_type)
        ELSE IF vehicle_type \in {CAR, EV} /\ spill_idx # {}
        THEN raises
        ELSE IF any_idx # {}
        THEN returned(first_in_order(ord, any_idx), vehicle_type)
        ELSE returned(None, None)

\* find_available_slot.  Step 1: the first empty VIP slot, for a VIP vehicle.
\* Step 2: the first empty slot of the vehicle's own type.  Step 3, CAR and EV
\* only: the first empty CAR or VIP slot is found, and then the return
\* statement evaluates parking_lot.get(slot_id, {}).get('type', vehicle_type);
\* the key exists with the value None, so .get is called on None and raises
\* AttributeError.  Step 4: (None, None).
find_available_slot(lot, ord, vehicle_type, is_vip) ==
    LET vip_idx   == empty_with_prefix(lot, ord, {"V"})
        type_idx  == empty_with_prefix(lot, ord, {type_prefix(vehicle_type)})
        spill_idx == empty_with_prefix(lot, ord, {"C", "V"})
    IN  IF is_vip /\ vip_idx # {}
        THEN returned(first_in_order(ord, vip_idx), VIP)
        ELSE IF type_idx # {}
        THEN returned(first_in_order(ord, type_idx), vehicle_type)
        ELSE IF vehicle_type \in {CAR, EV} /\ spill_idx # {}
        THEN raises
        ELSE returned(None, None)

\* the scan looks at the first slot only
find_by_vehicle_first_slot(lot, ord, vehicle_no) ==
    first_in_order(ord, { i \in 1..Len(ord) :
                            i = 1 /\ lot[ord[i]] # None
                            /\ lot[ord[i]].vehicle_no = vehicle_no })

\* the scan stops at the first occupied slot, whatever vehicle it holds
find_by_vehicle_any_vehicle(lot, ord, vehicle_no) ==
    first_in_order(ord, { i \in 1..Len(ord) : lot[ord[i]] # None })

\* the scan of vehicle_entry and vehicle_exit for a parked vehicle: the first
\* slot, in iteration order, whose reservation carries vehicle_no; None if none
find_by_vehicle(lot, ord, vehicle_no) ==
    first_in_order(ord, { i \in 1..Len(ord) :
                            lot[ord[i]] # None /\ lot[ord[i]].vehicle_no = vehicle_no })


-----------------------------------------------------------------------------
(* Inputs *)

\* vehicle numbers typed at the prompt; the first two differ only in case
VehicleNos == { <<"A","B","1">>, <<"a","b","1">>, <<"A","B","2">>, <<"A","B","3">> }

\* vehicle types typed at the prompt: the four valid ones, one of them in
\* lower case, and VIP, which is a slot category but not a vehicle type
VehicleTypes == { BIKE, CAR, <<"e","v">>, HEAVY, VIP }

\* time that passes between two readings of the clock: none to speak of, or
\* the hours the session is observed for
ClockSteps == { [sec |-> 0, us |-> 0], [sec |-> MaxClockHours * 3600, us |-> 0] }

\* the values datetime.datetime.now() may return next
clock_readings ==
    { t \in { add_timedelta(now, d) : d \in ClockSteps } :
        t.sec <= MaxClockHours * 3600 }

NoCall == [op |-> "none", outcome |-> "none", vehicle_no |-> None, slot_id |-> None]

NoFeeCall == [entry_time |-> [sec |-> 0, us |-> 0], exit_time |-> [sec |-> 0, us |-> 0],
              vehicle_type |-> None]

NoFeeRet == [fee |-> 0, total_hours |-> 0]

-----------------------------------------------------------------------------
(* The session *)

\* main_menu start-up: initialize_parking_lot, an empty revenue_log
Init ==
    /\ max_slots \in Capacities
    /\ order \in shuffles(created_slots(max_slots, Len(Categories)))
    /\ parking_lot = [s \in Range(order) |-> None]
    /\ revenue_log = << >>
    /\ now = [sec |-> 0, us |-> 0]
    /\ alive = TRUE
    /\ calls = 0
    /\ last = NoCall
    /\ completed = [entries |-> 0, exits |-> 0]
    /\ fee_call = NoFeeCall
    /\ fee_ret = NoFeeRet

\* the part of the state a handler reads and writes
program_state ==
    [parking_lot |-> parking_lot, revenue_log |-> revenue_log, now |-> now,
     alive |-> alive, last |-> last]

\* the scan for a parked vehicle made before the type is validated
vehicle_entry_duplicate_first(raw_no, raw_type, is_vip, clock) ==
    LET vehicle_type == upper(raw_type)
        vehicle_no   == upper(raw_no)
        parked       == find_by_vehicle(parking_lot, order, vehicle_no)
        found        == find_available_slot(parking_lot, order, vehicle_type, is_vip)
        call         == [NoCall EXCEPT !.op = "entry"]
    IN  IF parked # None
        THEN [program_state EXCEPT
                !.last = [call EXCEPT !.outcome = "DuplicateVehicle",
                                      !.vehicle_no = vehicle_no, !.slot_id = parked]]
        ELSE IF vehicle_type \notin {BIKE, CAR, EV, HEAVY}
        THEN [program_state EXCEPT !.last = [call EXCEPT !.outcome = "InvalidVehicleType"]]
        ELSE IF found.raised
        THEN [program_state EXCEPT
                !.last = [call EXCEPT !.outcome = "AttributeError"],
                !.alive = FALSE]
        ELSE IF found.slot_id # None
        THEN [program_state EXCEPT
                !.now = clock,
                !.parking_lot = [parking_lot EXCEPT ![found.slot_id] =
                                    [vehicle_no |-> vehicle_no,
                                     type       |-> vehicle_type,
                                     entry_time |-> clock,
                                     is_vip     |-> is_vip]],
                !.last = [call EXCEPT !.outcome = "Success", !.vehicle_no = vehicle_no,
                                      !.slot_id = found.slot_id]]
        ELSE [program_state EXCEPT !.last = [call EXCEPT !.outcome = "LotFull"]]

\* vehicle_entry(vehicle_no, vehicle_type, is_vip): the state the call leaves,
\* clock being what datetime.datetime.now() returns if the call reads it
vehicle_entry(raw_no, raw_type, is_vip, clock) ==
    LET vehicle_type == upper(raw_type)
        vehicle_no   == upper(raw_no)
        parked       == find_by_vehicle(parking_lot, order, vehicle_no)
        found        == find_available_slot(parking_lot, order, vehicle_type, is_vip)
        call         == [NoCall EXCEPT !.op = "entry"]
    IN  IF vehicle_type \notin {BIKE, CAR, EV, HEAVY}
        THEN [program_state EXCEPT !.last = [call EXCEPT !.outcome = "InvalidVehicleType"]]
        ELSE IF parked # None
        THEN [program_state EXCEPT
                !.last = [call EXCEPT !.outcome = "DuplicateVehicle",
                                      !.vehicle_no = vehicle_no, !.slot_id = parked]]
        ELSE IF found.raised
        THEN \* the AttributeError leaves vehicle_entry and main_menu
             [program_state EXCEPT
                !.last = [call EXCEPT !.outcome = "AttributeError"],
                !.alive = FALSE]
        ELSE IF found.slot_id # None
        THEN [program_state EXCEPT
                !.now = clock,
                !.parking_lot = [parking_lot EXCEPT ![found.slot_id] =
                                    [vehicle_no |-> vehicle_no,
                                     type       |-> vehicle_type,
                                     entry_time |-> clock,
                                     is_vip     |-> is_vip]],
                !.last = [call EXCEPT !.outcome = "Success", !.vehicle_no = vehicle_no,
                                      !.slot_id = found.slot_id]]
        ELSE [program_state EXCEPT !.last = [call EXCEPT !.outcome = "LotFull"]]

\* the exit bills the category of the slot when the slot is a VIP slot
billing_type_of_slot(slot_id, info) ==
    IF startswith(slot_id, <<"V", "-">>) THEN VIP ELSE info.type

\* v_type = info['type']: the exit bills the type stored in the reservation,
\* whatever slot held it
billing_type(slot_id, info) == info.type

\* the exit that logs the revenue and leaves the slot reserved
vehicle_exit_keeps_reservation(raw_no, clock) ==
    LET vehicle_no    == upper(raw_no)
        found_slot_id == find_by_vehicle(parking_lot, order, vehicle_no)
        call          == [NoCall EXCEPT !.op = "exit", !.vehicle_no = vehicle_no]
        info          == parking_lot[found_slot_id]
        entry_time    == info.entry_time
        v_type        == billing_type(found_slot_id, info)
        bill          == calculate_fee(entry_time, clock, v_type)
    IN  IF found_slot_id = None
        THEN [program_state EXCEPT !.last = [call EXCEPT !.outcome = "VehicleNotFound"]]
        ELSE [program_state EXCEPT
                !.now = clock,
                !.revenue_log = Append(revenue_log,
                                    [vehicle_no   |-> vehicle_no,
                                     type         |-> v_type,
                                     slot_id      |-> found_slot_id,
                                     entry_time   |-> entry_time,
                                     exit_time    |-> clock,
                                     duration_hrs |-> bill.total_hours,
                                     fee          |-> bill.fee]),
                !.last = [call EXCEPT !.outcome = "Exited", !.slot_id = found_slot_id]]

\* vehicle_exit(vehicle_no): the state the call leaves, clock being what
\* datetime.datetime.now() returns if the call reads it
vehicle_exit(raw_no, clock) ==
    LET vehicle_no    == upper(raw_no)
        found_slot_id == find_by_vehicle(parking_lot, order, vehicle_no)
        call          == [NoCall EXCEPT !.op = "exit", !.vehicle_no = vehicle_no]
        info          == parking_lot[found_slot_id]
        entry_time    == info.entry_time
        v_type        == billing_type(found_slot_id, info)
        bill          == calculate_fee(entry_time, clock, v_type)
    IN  IF found_slot_id = None
        THEN [program_state EXCEPT !.last = [call EXCEPT !.outcome = "VehicleNotFound"]]
        ELSE [program_state EXCEPT
                !.now = clock,
                !.revenue_log = Append(revenue_log,
                                    [vehicle_no   |-> vehicle_no,
                                     type         |-> v_type,
                                     slot_id      |-> found_slot_id,
                                     entry_time   |-> entry_time,
                                     exit_time    |-> clock,
                                     duration_hrs |-> bill.total_hours,
                                     fee          |-> bill.fee]),
                !.parking_lot = [parking_lot EXCEPT ![found_slot_id] = None],
                !.last = [call EXCEPT !.outcome = "Exited", !.slot_id = found_slot_id]]

\* the history of the session once a call has printed what: one more entry
\* for "[SUCCESS] Vehicle ... entered", one more exit for "[EXIT REPORT]"
tally(what) ==
    [entries |-> completed.entries
                 + (IF what.op = "entry" /\ what.outcome = "Success" THEN 1 ELSE 0),
     exits   |-> completed.exits
                 + (IF what.op = "exit" /\ what.outcome = "Exited" THEN 1 ELSE 0)]

\* the handler has run and left the state after
handler_returns(after) ==
    /\ alive
    /\ calls < MaxCalls
    /\ calls' = calls + 1
    /\ parking_lot' = after.parking_lot
    /\ revenue_log' = after.revenue_log
    /\ now' = after.now
    /\ alive' = after.alive
    /\ last' = after.last
    /\ completed' = tally(after.last)
    /\ UNCHANGED <<max_slots, order, fee_call, fee_ret>>

\* a call of vehicle_entry
Entry ==
    \E raw_no \in VehicleNos, raw_type \in VehicleTypes, is_vip \in BOOLEAN,
       clock \in clock_readings :
        handler_returns(vehicle_entry(raw_no, raw_type, is_vip, clock))

\* a call of vehicle_exit
Exit ==
    \E raw_no \in VehicleNos, clock \in clock_readings :
        handler_returns(vehicle_exit(raw_no, clock))

\* occupied_count of display_status
occupied_count(lot) == Cardinality({ s \in DOMAIN lot : lot[s] # None })

\* available_count of display_status
available_count(lot) == total_capacity - occupied_count(lot)

\* display_status(): reads parking_lot, prints the dashboard, writes nothing
display_status ==
    [program_state EXCEPT !.last = [NoCall EXCEPT !.op = "status", !.outcome = "Shown"]]

\* the report that starts a new day: the ledger is emptied once it is shown
display_daily_report_clears_log ==
    [program_state EXCEPT
        !.revenue_log = << >>,
        !.last = [NoCall EXCEPT !.op = "report",
                                !.outcome = IF revenue_log = << >>
                                            THEN "NoTransactions" ELSE "Shown"]]

\* display_daily_report(): reads revenue_log, prints the report (or that there
\* is no transaction yet), writes nothing
display_daily_report ==
    [program_state EXCEPT
        !.last = [NoCall EXCEPT !.op = "report",
                                !.outcome = IF revenue_log = << >>
                                            THEN "NoTransactions" ELSE "Shown"]]

\* menu choice 3
Status == handler_returns(display_status)

\* menu choice 4
Report == handler_returns(display_daily_report)

Next == Entry \/ Exit \/ Status \/ Report

Spec == Init /\ [][Next]_vars

-----------------------------------------------------------------------------
(* calculate_fee called directly *)

\* entry timestamps of the direct calls
FeeEntryTimes == { [sec |-> 0, us |-> 0], [sec |-> 0, us |-> 999999],
                   [sec |-> 3600, us |-> 1] }

\* exit timestamps of the direct calls: one second before, at and one second
\* after every whole hour, each with no, one and 999999 microseconds
FeeExitTimes ==
    { [sec |-> (h * 3600) + d, us |-> u] :
        h \in 0..MaxFeeHours, d \in {-1, 0, 1}, u \in {0, 1, 999999} }
    \ { t \in [sec : {-1}, us : {0, 1, 999999}] : TRUE }

\* categories passed to the direct calls: the five of PRICING and one that is
\* not a key of it
FeeTypes == { BIKE, CAR, EV, HEAVY, VIP, <<"T","R","U","C","K">> }

calculate_fee_call ==
    \E entry_time \in FeeEntryTimes, exit_time \in FeeExitTimes, vehicle_type \in FeeTypes :
        /\ fee_call' = [entry_time |-> entry_time, exit_time |-> exit_time,
                        vehicle_type |-> vehicle_type]
        /\ fee_ret' = calculate_fee(entry_time, exit_time, vehicle_type)
        /\ UNCHANGED <<max_slots, order, parking_lot, revenue_log, now, alive, calls, last,
                       completed>>

FeeNext == calculate_fee_call

FeeSpec == Init /\ [][FeeNext]_vars

-----------------------------------------------------------------------------
(* Vocabulary of the properties *)

ValidTypes == {BIKE, CAR, EV, HEAVY}

Slots == DOMAIN parking_lot

occupied(s) == parking_lot[s] # None

\* the category a slot id stands for (its prefix)
slot_category(s) ==
    IF s[1] = "V" THEN VIP
    ELSE IF s[1] = "B" THEN BIKE
    ELSE IF s[1] = "C" THEN CAR
    ELSE IF s[1] = "E" THEN EV
    ELSE HEAVY

empty_slots(cats) == { s \in Slots : slot_category(s) \in cats /\ ~occupied(s) }

\* the categories that have an empty slot
free_categories == { slot_category(s) : s \in { x \in Slots : ~occupied(x) } }

\* two strings are equal up to the case of their letters
equal_ignoring_case(a, b) ==
    /\ Len(a) = Len(b)
    /\ \A i \in 1..Len(a) :
          \/ a[i] = b[i]
          \/ \E k \in 1..Len(LowerChars) : {a[i], b[i]} = {LowerChars[k], UpperChars[k]}

\* vehicle number no, compared without regard to case, is held by some slot
held(no) ==
    \E s \in Slots : occupied(s) /\ equal_ignoring_case(parking_lot[s].vehicle_no, no)

has_lower_case(str) == \E i \in 1..Len(str), k \in 1..Len(LowerChars) : str[i] = LowerChars[k]

\* the tier of a category, read from the pricing table
tier_fee(category, hours) ==
    IF hours <= PRICING[category].FIXED_HOURS
    THEN PRICING[category].FIXED_RATE
    ELSE PRICING[category].FIXED_RATE
         + (hours - PRICING[category].FIXED_HOURS) * PRICING[category].PER_HOUR

-----------------------------------------------------------------------------
(* C1 *)

\* C1: in every reachable state each case-normalized vehicle identifier is in
\* the reservation of at most one slot: stored identifiers are upper case and
\* no two slots store the same one.
C1_OneReservationPerVehicle ==
    \A s1, s2 \in Slots :
        (occupied(s1) /\ occupied(s2))
        => /\ ~has_lower_case(parking_lot[s1].vehicle_no)
           /\ (parking_lot[s1].vehicle_no = parking_lot[s2].vehicle_no => s1 = s2)

\* two vehicles are parked and an entry of a parked vehicle has just been refused
C1_Witness ==
    /\ Cardinality({ s \in Slots : occupied(s) }) = 2
    /\ last.op = "entry" /\ last.outcome = "DuplicateVehicle"

-----------------------------------------------------------------------------
(* C2 *)

\* C2: whenever a VIP slot is empty, an allocation with is_vip = TRUE returns
\* an empty VIP slot for each of the four valid types, in every reachable
\* registry state and iteration order.
C2_VipGetsVipSlot ==
    \A t \in ValidTypes :
        empty_slots({VIP}) # {}
        => LET r == find_available_slot(parking_lot, order, t, TRUE)
           IN  ~r.raised /\ r.slot_id \in empty_slots({VIP})

\* a VIP entry has just taken a VIP slot although a standard slot of the
\* vehicle's own type is empty
C2_Witness ==
    /\ last.op = "entry" /\ last.outcome = "Success"
    /\ slot_category(last.slot_id) = VIP
    /\ parking_lot[last.slot_id].is_vip
    /\ empty_slots({parking_lot[last.slot_id].type}) # {}

-----------------------------------------------------------------------------------------------------------------------------------------------------------------------------------------------------------------------------
(* C3 *)

\* C3: in every reachable state, a non-VIP CAR or EV entry made when every
\* slot of its own category (there is one) is occupied and a CAR or VIP slot
\* is empty succeeds and reserves such an empty slot for the vehicle.
C3_SpilloverSucceeds ==
    \A t \in VehicleTypes :
        ( /\ upper(t) \in {CAR, EV}
          /\ \E s \in Slots : slot_category(s) = upper(t)
          /\ upper(t) \notin free_categories
          /\ (CAR \in free_categories \/ VIP \in free_categories) )
        => \A no \in VehicleNos, clock \in clock_readings :
             ~held(no)
             => LET after == vehicle_entry(no, t, FALSE, clock)
                IN  /\ after.last.outcome = "Success"
                    /\ after.last.slot_id \in empty_slots({CAR, VIP})
                    /\ after.parking_lot[after.last.slot_id] # None
                    /\ after.parking_lot[after.last.slot_id].vehicle_no = upper(no)

-----------------------------------------------------------------------------
(* C4 *)

\* C4 as stated: in every reachable state, an entry of a vehicle already held
\* is refused as DuplicateVehicle whatever type is requested, and changes
\* neither a reservation nor the ledger.
C4_DuplicateAnyType ==
    \A no \in VehicleNos :
        held(no)
        => \A t \in VehicleTypes, vip \in BOOLEAN, clock \in clock_readings :
             LET after == vehicle_entry(no, t, vip, clock)
             IN  /\ after.last.outcome = "DuplicateVehicle"
                 /\ after.parking_lot = parking_lot
                 /\ after.revenue_log = revenue_log

\* C4 amended: in every reachable state, an entry of a vehicle already held
\* that requests one of the four valid types is refused as DuplicateVehicle
\* whatever the type and the VIP flag, and changes neither a reservation nor
\* the ledger.
C4_DuplicateValidType ==
    \A no \in VehicleNos :
        held(no)
        => \A t \in VehicleTypes, vip \in BOOLEAN, clock \in clock_readings :
             upper(t) \in ValidTypes
             => LET after == vehicle_entry(no, t, vip, clock)
                IN  /\ after.last.outcome = "DuplicateVehicle"
                    /\ after.parking_lot = parking_lot
                    /\ after.revenue_log = revenue_log

\* an entry has just been refused as a duplicate of a parked vehicle
C4_Witness ==
    /\ last.op = "entry" /\ last.outcome = "DuplicateVehicle"
    /\ occupied(last.slot_id)
    /\ parking_lot[last.slot_id].vehicle_no = last.vehicle_no

-----------------------------------------------------------------------------
(* C5 *)

\* C5: in every reachable state, an exit of a vehicle held by no slot reports
\* VehicleNotFound and leaves the registry and the ledger as they were.
C5_ExitNotFound ==
    \A no \in VehicleNos, clock \in clock_readings :
        ~held(no)
        => LET after == vehicle_exit(no, clock)
           IN  /\ after.last.outcome = "VehicleNotFound"
               /\ after.parking_lot = parking_lot
               /\ after.revenue_log = revenue_log

\* an exit has just been refused while another vehicle is parked
C5_Witness ==
    /\ last.op = "exit" /\ last.outcome = "VehicleNotFound"
    /\ \E s \in Slots : occupied(s)

-----------------------------------------------------------------------------
(* C6 *)

\* none of the allocation rules 1-3 has an empty slot to offer
no_rule_applies(t, vip) ==
    /\ ~(vip /\ VIP \in free_categories)
    /\ t \notin free_categories
    /\ ~(t \in {CAR, EV} /\ (CAR \in free_categories \/ VIP \in free_categories))

\* C6: in every reachable state, a valid request of a vehicle not yet parked
\* for which rules 1-3 find no slot is reported LotFull and changes neither a
\* reservation nor the ledger.
C6_LotFull ==
    \A t \in VehicleTypes, vip \in BOOLEAN :
        (upper(t) \in ValidTypes /\ no_rule_applies(upper(t), vip))
        => \A no \in VehicleNos, clock \in clock_readings :
             ~held(no)
             => LET after == vehicle_entry(no, t, vip, clock)
                IN  /\ after.last.outcome = "LotFull"
                    /\ after.parking_lot = parking_lot
                    /\ after.revenue_log = revenue_log

\* an entry has just been refused LotFull with the CAR slot and the VIP slot
\* of the lot both occupied
C6_Witness ==
    /\ last.op = "entry" /\ last.outcome = "LotFull"
    /\ \E c, v \in Slots : /\ slot_category(c) = CAR /\ occupied(c)
                           /\ slot_category(v) = VIP /\ occupied(v)
    /\ empty_slots({CAR, VIP}) = {}

-----
(* C7 *)

\* C7: every vehicle_entry call completes with one of success,
\* InvalidVehicleType, DuplicateVehicle and LotFull, and the process survives.
C7_EntryNeverFatal ==
    /\ alive
    /\ last.op = "entry"
       => last.outcome \in {"Success", "InvalidVehicleType", "DuplicateVehicle", "LotFull"}

-----------------------------------------------------------------------------
(* C8 *)

\* C8: in every reachable state, a successful entry stores the requested type
\* and the VIP flag as given, whatever slot it is given, and a successful exit
\* records that stored type in the ledger and charges the fee of that type's
\* tier for the billed hours, whatever the category of the slot.
C8_BilledAtRequestedType ==
    /\ \A no \in VehicleNos, t \in VehicleTypes, vip \in BOOLEAN, clock \in clock_readings :
         LET after == vehicle_entry(no, t, vip, clock)
         IN  after.last.outcome = "Success"
             => /\ upper(t) \in ValidTypes
                /\ after.parking_lot[after.last.slot_id].type = upper(t)
                /\ after.parking_lot[after.last.slot_id].is_vip = vip
    /\ \A no \in VehicleNos, clock \in clock_readings :
         LET after == vehicle_exit(no, clock)
         IN  after.last.outcome = "Exited"
             => LET reservation == parking_lot[after.last.slot_id]
                    entry       == after.revenue_log[Len(after.revenue_log)]
                IN  /\ entry.type = reservation.type
                    /\ entry.type \in ValidTypes
                    /\ entry.fee = tier_fee(reservation.type, entry.duration_hrs)

\* a CAR that occupied a VIP slot has just left and was charged the CAR rate
C8_Witness ==
    /\ last.op = "exit" /\ last.outcome = "Exited"
    /\ slot_category(last.slot_id) = VIP
    /\ revenue_log[Len(revenue_log)].slot_id = last.slot_id
    /\ revenue_log[Len(revenue_log)].type = CAR
    /\ revenue_log[Len(revenue_log)].fee = PRICING[CAR].FIXED_RATE

-----------------------------------------------------------------------------
(* C9 *)

\* calculate_fee has been called directly
fee_called == fee_call.vehicle_type # None

\* ceiling(elapsed_seconds / 3600) of a non-negative duration
ceiling_hours(duration) ==
    IF duration.us = 0 THEN (duration.sec + 3599) \div 3600
    ELSE (duration.sec \div 3600) + 1

\* C9: for every category and every non-negative duration, whole seconds or
\* not, calculate_fee returns billed hours max(1, ceiling(seconds / 3600)) and
\* the fee of the category's tier for those hours.
C9_CeilingOfDuration ==
    LET duration == sub_datetime(fee_call.exit_time, fee_call.entry_time)
        ceil     == ceiling_hours(duration)
        billed   == IF ceil > 1 THEN ceil ELSE 1
    IN  (fee_called /\ fee_call.vehicle_type \in DOMAIN PRICING /\ duration.sec >= 0)
        => /\ fee_ret.total_hours = billed
           /\ fee_ret.fee = tier_fee(fee_call.vehicle_type, billed)

-----------------------------------------------------------------------------
(* C10 *)

\* C10: for every category, a duration of exactly fixed_hours * 3600 seconds
\* is charged fixed_rate and a duration one second longer is charged
\* fixed_rate + per_hour_rate.
C10_FixedHoursBoundary ==
    LET duration == sub_datetime(fee_call.exit_time, fee_call.entry_time)
        tier     == PRICING[fee_call.vehicle_type]
    IN  (fee_called /\ fee_call.vehicle_type \in DOMAIN PRICING /\ duration.us = 0)
        => /\ duration.sec = tier.FIXED_HOURS * 3600
              => fee_ret.fee = tier.FIXED_RATE
           /\ duration.sec = (tier.FIXED_HOURS * 3600) + 1
              => fee_ret.fee = tier.FIXED_RATE + tier.PER_HOUR

\* calculate_fee has just charged fixed_rate + per_hour_rate for a stay one
\* second longer than the fixed hours, the timestamps not on a whole second
C10_Witness ==
    LET duration == sub_datetime(fee_call.exit_time, fee_call.entry_time)
    IN  /\ fee_called
        /\ fee_call.vehicle_type = VIP
        /\ fee_call.entry_time.us # 0
        /\ duration = [sec |-> (PRICING[VIP].FIXED_HOURS * 3600) + 1, us |-> 0]
        /\ fee_ret.fee = PRICING[VIP].FIXED_RATE + PRICING[VIP].PER_HOUR

-----------------------------------------------------------------------------
(* C11 *)

\* C11: a direct calculate_fee call whose exit time is earlier than its entry
\* time (negative elapsed duration) is rejected: it returns no fee.
C11_NegativeDurationRejected ==
    LET duration == sub_datetime(fee_call.exit_time, fee_call.entry_time)
    IN  (fee_called /\ duration.sec < 0) => fee_ret = NoFeeRet

-----------------------------------------------------------------------------
(* C12 *)

\* types typed at the prompt that are not vehicle types: the slot category
\* VIP, in upper and in lower case, and a word that is no category at all
InvalidTypes == { VIP, <<"v","i","p">>, <<"T","R","U","C","K">> }

\* C12: in every reachable state, an entry whose requested type is not one of
\* BIKE, CAR, EV, HEAVY is refused as InvalidVehicleType, whether or not the
\* vehicle is already parked and whether or not a slot is empty, and changes
\* neither a reservation nor the ledger; the process goes on.
C12_InvalidTypeRejected ==
    alive =>
    \A no \in VehicleNos, t \in InvalidTypes, vip \in BOOLEAN, clock \in clock_readings :
        LET after == vehicle_entry(no, t, vip, clock)
        IN  /\ after.last.outcome = "InvalidVehicleType"
            /\ after.parking_lot = parking_lot
            /\ after.revenue_log = revenue_log
            /\ after.alive

\* an entry has just been refused for its type while every slot of the lot is
\* occupied, so that the vehicle is either parked already or has no slot left
C12_Witness ==
    /\ last.op = "entry" /\ last.outcome = "InvalidVehicleType"
    /\ \A s \in Slots : occupied(s)

-----------------------------------------------------------------------------
(* C13 *)

\* every vehicle of type BIKE or HEAVY stands in a slot of its own category
in_own_category ==
    \A s \in Slots :
        (occupied(s) /\ parking_lot[s].type \in {BIKE, HEAVY})
        => slot_category(s) = parking_lot[s].type

\* every vehicle of type BIKE or HEAVY stands in a slot of its own category,
\* or in a VIP slot with the VIP flag set
in_own_category_or_vip ==
    \A s \in Slots :
        (occupied(s) /\ parking_lot[s].type \in {BIKE, HEAVY})
        => \/ slot_category(s) = parking_lot[s].type
           \/ slot_category(s) = VIP /\ parking_lot[s].is_vip

\* C13 as stated: in every reachable state, a BIKE or HEAVY entry of a vehicle
\* not yet parked, made while every slot of its own category (there is one)
\* is occupied, is reported LotFull and changes nothing, whatever its VIP
\* flag, and no BIKE or HEAVY vehicle stands in a slot of another category.
C13_NeverAnotherCategory ==
    /\ in_own_category
    /\ \A t \in VehicleTypes :
         ( /\ upper(t) \in {BIKE, HEAVY}
           /\ \E s \in Slots : slot_category(s) = upper(t)
           /\ upper(t) \notin free_categories )
         => \A no \in VehicleNos, vip \in BOOLEAN, clock \in clock_readings :
              ~held(no)
              => LET after == vehicle_entry(no, t, vip, clock)
                 IN  /\ after.last.outcome = "LotFull"
                     /\ after.parking_lot = parking_lot
                     /\ after.revenue_log = revenue_log

\* C13 amended: in every reachable state, a BIKE or HEAVY entry of a vehicle
\* not yet parked, made while every slot of its own category is occupied and
\* either without the VIP flag or with no VIP slot empty, is reported LotFull
\* and changes nothing; a BIKE or HEAVY vehicle stands in a slot of its own
\* category or, VIP-flagged, in a VIP slot.
C13_NoStandardFallback ==
    /\ in_own_category_or_vip
    /\ \A t \in VehicleTypes, vip \in BOOLEAN :
         ( /\ upper(t) \in {BIKE, HEAVY}
           /\ upper(t) \notin free_categories
           /\ (~vip \/ VIP \notin free_categories) )
         => \A no \in VehicleNos, clock \in clock_readings :
              ~held(no)
              => LET after == vehicle_entry(no, t, vip, clock)
                 IN  /\ after.last.outcome = "LotFull"
                     /\ after.parking_lot = parking_lot
                     /\ after.revenue_log = revenue_log

\* an entry has just been reported LotFull in a lot whose only BIKE slot is
\* occupied by a BIKE and whose VIP slot is empty
C13_Witness ==
    /\ last.op = "entry" /\ last.outcome = "LotFull"
    /\ \E s \in Slots : slot_category(s) = BIKE
    /\ \A s \in Slots : slot_category(s) = BIKE
                        => occupied(s) /\ parking_lot[s].type = BIKE
    /\ empty_slots({VIP}) # {}

-----------------------------------------------------------------------------
(* C14 *)

\* C14: in every reachable state, a vehicle_exit call either succeeds, and then
\* it appends exactly one ledger entry carrying the vehicle's identifier,
\* requested type, slot and entry time, empties exactly the slot that held the
\* vehicle and leaves every other reservation and every earlier ledger entry
\* as it was, or it changes neither the registry nor the ledger; after a
\* successful exit the slot is empty and the ledger ends with its entry.
C14_ExitCommitsFully ==
    /\ \A no \in VehicleNos, clock \in clock_readings :
         LET after == vehicle_exit(no, clock)
             s     == after.last.slot_id
             n     == Len(revenue_log)
         IN  IF after.last.outcome = "Exited"
             THEN /\ s \in Slots /\ occupied(s)
                  /\ equal_ignoring_case(parking_lot[s].vehicle_no, no)
                  /\ after.parking_lot = [x \in Slots |-> IF x = s THEN None ELSE parking_lot[x]]
                  /\ Len(after.revenue_log) = n + 1
                  /\ SubSeq(after.revenue_log, 1, n) = revenue_log
                  /\ after.revenue_log[n + 1].vehicle_no = parking_lot[s].vehicle_no
                  /\ after.revenue_log[n + 1].type = parking_lot[s].type
                  /\ after.revenue_log[n + 1].slot_id = s
                  /\ after.revenue_log[n + 1].entry_time = parking_lot[s].entry_time
             ELSE /\ after.parking_lot = parking_lot
                  /\ after.revenue_log = revenue_log
    /\ (last.op = "exit" /\ last.outcome = "Exited")
       => /\ ~occupied(last.slot_id)
          /\ revenue_log # << >>
          /\ revenue_log[Len(revenue_log)].slot_id = last.slot_id
          /\ revenue_log[Len(revenue_log)].vehicle_no = last.vehicle_no

\* a vehicle has just left while another one stays parked: the ledger has its
\* entry, its slot is empty and the other slot is still occupied
C14_Witness ==
    /\ last.op = "exit" /\ last.outcome = "Exited"
    /\ Len(revenue_log) = 1
    /\ revenue_log[1].vehicle_no = last.vehicle_no
    /\ ~occupied(last.slot_id)
    /\ \E s \in Slots : occupied(s) /\ parking_lot[s].vehicle_no # last.vehicle_no

-----------------------------------------------------------------------------
(* C15 *)

\* sequence a is a prefix of sequence b
is_prefix(a, b) == Len(a) <= Len(b) /\ SubSeq(b, 1, Len(a)) = a

\* C15: in every reachable state, whatever operation is called next, the
\* ledger before the call is a prefix of the ledger after it, and the ledger
\* is longer after the call, by one entry, only if the call is a successful
\* vehicle_exit: entry, status, report and a refused exit leave it as it was.
C15_LedgerAppendOnly ==
    /\ \A no \in VehicleNos, t \in VehicleTypes, vip \in BOOLEAN, clock \in clock_readings :
         vehicle_entry(no, t, vip, clock).revenue_log = revenue_log
    /\ \A no \in VehicleNos, clock \in clock_readings :
         LET after == vehicle_exit(no, clock)
         IN  /\ is_prefix(revenue_log, after.revenue_log)
             /\ IF after.last.outcome = "Exited"
                THEN Len(after.revenue_log) = Len(revenue_log) + 1
                ELSE after.revenue_log = revenue_log
    /\ display_status.revenue_log = revenue_log
    /\ display_daily_report.revenue_log = revenue_log

\* the ledger holds the entry of an earlier exit and has since been through
\* another call, a successful entry or a report
C15_Witness ==
    /\ Len(revenue_log) = 1
    /\ calls > 2
    /\ last.op \in {"entry", "report"}
    /\ last.outcome \in {"Success", "Shown"}

-----------------------------------------------------------------------------
(* C16 *)

\* the keys initialize_parking_lot inserts for the shipped capacities
shipped_slots == created_slots(MAX_SLOTS, Len(Categories))

\* C16: in every reachable state, after any sequence of entry, exit, status
\* and report calls, the slot ids are those initialize_parking_lot created for
\* the configured capacities: they are pairwise distinct, their number is the
\* sum of the capacities, and each category has as many as its capacity; the
\* ids created for the shipped capacities are pairwise distinct as well.
C16_SlotSetFixed ==
    /\ Cardinality(Range(shipped_slots)) = Len(shipped_slots)
    /\ Len(shipped_slots) = sum_capacity(MAX_SLOTS, Len(Categories))
    /\ Slots = Range(created_slots(max_slots, Len(Categories)))
    /\ Slots = Range(order)
    /\ Cardinality(Slots) = Len(order)
    /\ Cardinality(Slots) = total_capacity
    /\ \A k \in 1..Len(Categories) :
         Cardinality({ s \in Slots : slot_category(s) = Categories[k] })
         = max_slots[Categories[k]]

\* in a lot with two slots of one category, two vehicles have entered and one
\* has left: its slot is still a slot of the lot, now empty, beside the
\* occupied one
C16_Witness ==
    /\ last.op = "exit" /\ last.outcome = "Exited"
    /\ last.slot_id \in Slots /\ ~occupied(last.slot_id)
    /\ occupied_count(parking_lot) = 1
    /\ \E c \in Range(Categories) : max_slots[c] = 2

-----------------------------------------------------------------------------
(* C17 *)

\* C17: in every reachable state, whatever operation is called next, an
\* occupied slot keeps its reservation unless the call is the vehicle_exit of
\* the vehicle it holds, which empties it; a successful vehicle_entry writes
\* the new reservation to a slot that was empty before the call and to no
\* other slot.
C17_NoOverwrite ==
    /\ \A no \in VehicleNos, t \in VehicleTypes, vip \in BOOLEAN, clock \in clock_readings :
         LET after == vehicle_entry(no, t, vip, clock)
         IN  /\ \A s \in Slots : occupied(s) => after.parking_lot[s] = parking_lot[s]
             /\ after.last.outcome = "Success"
                => /\ after.last.slot_id \in Slots
                   /\ ~occupied(after.last.slot_id)
                   /\ after.parking_lot[after.last.slot_id] # None
                   /\ \A s \in Slots \ {after.last.slot_id} :
                        after.parking_lot[s] = parking_lot[s]
    /\ \A no \in VehicleNos, clock \in clock_readings :
         LET after == vehicle_exit(no, clock)
         IN  \A s \in Slots :
                (occupied(s) /\ after.parking_lot[s] # parking_lot[s])
                => /\ equal_ignoring_case(parking_lot[s].vehicle_no, no)
                   /\ after.parking_lot[s] = None
    /\ display_status.parking_lot = parking_lot
    /\ display_daily_report.parking_lot = parking_lot

\* a standard CAR has just entered a lot whose VIP slot holds a VIP vehicle:
\* it stands in the CAR slot and the VIP reservation is still there
C17_Witness ==
    /\ last.op = "entry" /\ last.outcome = "Success"
    /\ slot_category(last.slot_id) = CAR
    /\ ~parking_lot[last.slot_id].is_vip
    /\ \E v \in Slots : /\ slot_category(v) = VIP
                        /\ occupied(v)
                        /\ parking_lot[v].is_vip
                        /\ parking_lot[v].vehicle_no # last.vehicle_no

-----------------------------------------------------------------------------
(* C18 *)

\* C18: in every reachable state the number of occupied slots is the number of
\* successful entries minus the number of successful exits, the ledger has one
\* entry per successful exit, and the occupied slots are at most the slots of
\* the lot (display_status never shows a negative available_count).
C18_OccupancyConserved ==
    /\ occupied_count(parking_lot) = completed.entries - completed.exits
    /\ Len(revenue_log) = completed.exits
    /\ occupied_count(parking_lot) <= total_capacity
    /\ available_count(parking_lot) >= 0

\* two vehicles have entered and one of them has left
C18_Witness ==
    /\ completed = [entries |-> 2, exits |-> 1]
    /\ occupied_count(parking_lot) = 1
    /\ Len(revenue_log) = 1

-----------------------------------------------------------------------------
(* C19 *)

\* C19: in every reachable state, an occupied BIKE, EV or HEAVY slot holds a
\* vehicle of the slot's category, an occupied CAR slot holds a CAR or an EV,
\* and a VIP slot that holds a BIKE or a HEAVY vehicle holds a VIP-flagged one.
C19_SlotOccupantCompatible ==
    \A s \in Slots :
        occupied(s)
        => /\ parking_lot[s].type \in ValidTypes
           /\ slot_category(s) \in {BIKE, EV, HEAVY}
              => parking_lot[s].type = slot_category(s)
           /\ slot_category(s) = CAR
              => parking_lot[s].type \in {CAR, EV}
           /\ (slot_category(s) = VIP /\ parking_lot[s].type \in {BIKE, HEAVY})
              => parking_lot[s].is_vip

\* a lot with a BIKE slot and a VIP slot is full: the BIKE slot holds a BIKE
\* and the VIP slot a VIP-flagged BIKE
C19_Witness ==
    /\ \E s \in Slots : /\ slot_category(s) = BIKE
                        /\ occupied(s)
                        /\ parking_lot[s].type = BIKE
    /\ \E s \in Slots : /\ slot_category(s) = VIP
                        /\ occupied(s)
                        /\ parking_lot[s].type = BIKE
                        /\ parking_lot[s].is_vip

-----------------------------------------------------------------------------
(* C20 *)

\* C20: in every reachable state every ledger entry has a category among
\* BIKE, CAR, EV and HEAVY, never VIP, and its fee is the fee of that
\* category's tier for the billed hours, whatever slot the vehicle stood in.
C20_VipTierNeverApplied ==
    \A i \in 1..Len(revenue_log) :
        /\ revenue_log[i].type \in ValidTypes
        /\ revenue_log[i].type # VIP
        /\ revenue_log[i].duration_hrs >= 1
        /\ revenue_log[i].fee = tier_fee(revenue_log[i].type, revenue_log[i].duration_hrs)

\* the ledger records an EV that stood in a VIP slot for longer than the fixed
\* hours of both tiers, at the EV rate, which is not what the VIP tier charges
\* for the same hours
C20_Witness ==
    \E i \in 1..Len(revenue_log) :
        /\ slot_category(revenue_log[i].slot_id) = VIP
        /\ revenue_log[i].type = EV
        /\ revenue_log[i].duration_hrs > PRICING[EV].FIXED_HOURS
        /\ revenue_log[i].duration_hrs > PRICING[VIP].FIXED_HOURS
        /\ revenue_log[i].fee = tier_fee(EV, revenue_log[i].duration_hrs)
        /\ revenue_log[i].fee # tier_fee(VIP, revenue_log[i].duration_hrs)

=============================================================================
